---- MODULE Spec2Model ----
(***************************************************************************)
(* Model of src/data/neo.py: the hazardous-asteroid pipeline               *)
(*   fetch_hazardous_neos -> process_asteroid -> impact_energy_joules,     *)
(*   energy_to_magnitude, get_earthquake_examples -> hazardous_data.       *)
(*                                                                         *)
(* Number representation (Python floats are modelled in fixed point):      *)
(*   magnitudes and magnitude deltas  : hundredths (0.3 -> 30)             *)
(*   miss distance                    : hundredths of a km (6371.0 ->      *)
(*                                      637100)                            *)
(*   diameter (m), velocity (km/s)    : whole units                        *)
(*   energy                           : units of (pi/12)*10^6 J, so that   *)
(*                                      energy = d^3 * density * v^2       *)
(* A nullable Python value is a sequence: <<>> is None, <<x>> is x.        *)
(* A dict is a record; an absent key is a field outside its DOMAIN.        *)
(***************************************************************************)
EXTENDS Integers, Sequences, FiniteSets, TLC

VARIABLES
    pc,             \* control point: "fetch", "iter", "query", "done", "raised", "returned"
    fault,          \* the exception that ended the run, "none" if none
    pages,          \* argument of fetch_hazardous_neos
    page,           \* loop variable of `for page in range(pages)`
    total_pages,    \* number of pages the NEO catalog holds (environment)
    first,          \* index of the first record the catalog serves (environment)
    per_page,       \* number of records on a catalog page (environment)
    fetches,        \* history: the requests sent to BROWSE_URL and their answers
    neos,           \* the list iterated by `for neo in neos`
    idx,            \* position of that iteration (1-based)
    hazardous_data, \* the module-level accumulator
    pending,        \* locals of process_asteroid while it waits for get_earthquake_examples
    mag,            \* get_earthquake_examples: argument mag
    delta,          \* get_earthquake_examples: argument delta
    max_delta,      \* get_earthquake_examples: argument max_delta
    current_delta,  \* get_earthquake_examples: local current_delta
    results,        \* get_earthquake_examples: local results
    queries,        \* history: the queries sent to the USGS catalog by the current call
    calls,          \* history: number of get_earthquake_examples calls started
    ret,            \* return value of a stand-alone call
    args            \* arguments of stand-alone impact_energy_joules calls

vars == <<pc, fault, pages, page, total_pages, first, per_page, fetches, neos, idx, hazardous_data,
          pending, mag, delta, max_delta, current_delta, results, queries, calls, ret, args>>

driverVars == <<pages, page, total_pages, first, per_page, fetches, neos, idx>>
matcherArgs == <<mag, delta, max_delta>>

(***************************************************************************)
(* Bounds of the model                                                     *)
(***************************************************************************)
MaxPages == 2          \* largest value of the argument `pages`
MaxTotalPages == 2     \* largest catalog size
MaxNeos == 2           \* largest number of records on a catalog page
MaxFeatures == 4       \* most features in one USGS response (the request asks for 3)
MaxCalls == 2          \* most invocations of fetch_hazardous_neos in one process
MaxQueries == 8        \* most seismic queries followed within one get_earthquake_examples call
MaxDiameter == 3       \* largest diameter given to a stand-alone impact_energy_joules call
MaxVelocity == 3       \* largest velocity given to a stand-alone impact_energy_joules call

(***************************************************************************)
(* Python values                                                           *)
(***************************************************************************)
None == <<>>
Some(x) == <<x>>
Has(d, k) == k \in DOMAIN d
\* dict.get(k, default)
Get(d, k, default) == IF Has(d, k) THEN d[k] ELSE default
\* a decimal string and a number, as float() can be given
Str(n) == [str |-> n]
Num(n) == [num |-> n]
\* float(x): a decimal string is parsed, a number is converted
float(x) == IF Has(x, "str") THEN x.str ELSE x.num
\* truth value of a nullable number: None and 0 are false
Truthy(x) == x # None /\ x[1] # 0

(***************************************************************************)
(* Constants of the program                                                *)
(***************************************************************************)
EARTH_RADIUS_KM == 637100
DefaultDensity == 3000
DefaultDelta == 30
DefaultMaxDelta == 200
step == 30
limit == 3
HttpOk == 200

(***************************************************************************)
(* Physics: impact_energy_joules and energy_to_magnitude                   *)
(***************************************************************************)
RECURSIVE Pow10(_)
Pow10(k) == IF k = 0 THEN 1 ELSE 10 * Pow10(k - 1)

RECURSIVE Pow2(_)
Pow2(k) == IF k = 0 THEN 1 ELSE 2 * Pow2(k - 1)

impact_energy_joules_IntRadius(diameter_m, velocity_km_s, density) ==
    LET radius == diameter_m \div 2
        v2 == velocity_km_s * velocity_km_s
    IN  8 * radius * radius * radius * density * v2

\* 0.5 * (4/3)*pi*(d/2)^3 * density * (1000 v)^2  =  (pi/12)*10^6 * d^3 * density * v^2;
\* the result is in units of (pi/12)*10^6 J.
impact_energy_joules(diameter_m, velocity_km_s, density) ==
    LET d3 == diameter_m * diameter_m * diameter_m
        v2 == velocity_km_s * velocity_km_s
    IN  d3 * density * v2

\* log10 of the energy unit, in hundredths: log10((pi/12)*10^6) = 5.418
Log10UnitCenti == 542

\* number of decimal digits of n, minus one (n >= 1)
Characteristic(n) == CHOOSE c \in 0..9 : Pow10(c) <= n /\ (c = 9 \/ n < Pow10(c + 1))

\* the binary digits of log10(y/1000) for a mantissa 1000 <= y < 10000, k digits
RECURSIVE FracBits(_, _)
FracBits(y, k) ==
    IF k = 0 THEN 0
    ELSE LET sq == (y * y) \div 1000
         IN  IF sq >= 10000 THEN Pow2(k - 1) + FracBits(sq \div 10, k - 1)
                            ELSE FracBits(sq, k - 1)

\* math.log10(n) in hundredths, for an integer n >= 1
Log10Centi(n) ==
    LET c == Characteristic(n)
        y == IF c >= 3 THEN n \div Pow10(c - 3) ELSE n * Pow10(3 - c)
    IN  100 * c + (100 * FracBits(y, 7)) \div 128

\* math.log10 raises ValueError (math domain error) on a non-positive argument
MathDomainError(energy_joules) == energy_joules <= 0

\* 0.67 * log10(E) - 5.87, in hundredths; defined for energy_joules > 0
energy_to_magnitude(energy_joules) ==
    (67 * (Log10Centi(energy_joules) + Log10UnitCenti)) \div 100 - 587

\* arguments of the stand-alone calls: positive diameter, velocity and density
Densities == {1000, 3000, 8000}
EnergyInputs ==
    [diameter_m : 1..MaxDiameter, velocity_km_s : 1..MaxVelocity, density : Densities]

\* lines 16-22: impact_energy_joules called on each of two argument triples
CallEnergy ==
    /\ pc = "energy"
    /\ ret' = Some([i \in 1..2 |->
                  impact_energy_joules(args[i].diameter_m, args[i].velocity_km_s, args[i].density)])
    /\ pc' = "returned"
    /\ UNCHANGED <<fault, pages, page, total_pages, first, per_page, fetches, neos, idx,
                   hazardous_data, pending, mag, delta, max_delta, current_delta, results,
                   queries, calls, args>>

EnergyInit ==
    /\ pc = "energy"
    /\ fault = "none"
    /\ pages = 0 /\ page = 0 /\ total_pages = 0 /\ first = 1 /\ per_page = 0
    /\ fetches = <<>> /\ neos = <<>> /\ idx = 1
    /\ hazardous_data = <<>>
    /\ pending = None
    /\ mag = 0 /\ delta = 0 /\ max_delta = 0 /\ current_delta = 0
    /\ results = <<>> /\ queries = <<>>
    /\ calls = 0
    /\ ret = None
    /\ args \in [1..2 -> EnergyInputs]

EnergyNext == CallEnergy

EnergySpec == EnergyInit /\ [][EnergyNext]_vars

(***************************************************************************)
(* The USGS catalog as the program sees it                                 *)
(***************************************************************************)
Places == <<"Chile", "Japan", "Alaska">>

\* the i-th feature of a GeoJSON answer ordered by time (newest first)
Feature(i) ==
    [type |-> "Feature", id |-> i,
     properties |-> [place |-> Places[((i - 1) % 3) + 1], mag |-> 500 + 10 * i,
                     time |-> 1700000 - i, felt |-> None]]

FeatureList(n) == [i \in 1..n |-> Feature(i)]

\* what requests.get(url, ...) can produce: a response with a status code and a body,
\* or an exception (connection error, timeout)
SeismicAnswers ==
    {[kind |-> "response", status_code |-> HttpOk, features |-> FeatureList(n)] : n \in 0..MaxFeatures}
    \cup {[kind |-> "response", status_code |-> 503, features |-> <<>>]}
    \cup {[kind |-> "exception"]}

(***************************************************************************)
(* get_earthquake_examples                                                 *)
(***************************************************************************)
Sentinel == <<[place |-> "No matching earthquakes found", mag |-> None, time |-> None]>>

Examples_SkipFirst(data) ==
    [i \in 1..(Len(data) - 1) |->
        [place |-> data[i + 1].properties.place,
         mag   |-> Some(data[i + 1].properties.mag),
         time  |-> Some(data[i + 1].properties.time)]]

\* lines 64-71: the list built from data
Examples(data) ==
    [i \in 1..Len(data) |->
        [place |-> data[i].properties.place,
         mag   |-> Some(data[i].properties.mag),
         time  |-> Some(data[i].properties.time)]]

\* lines 55-59: the parameters of one query
QueryParams(m, cd) ==
    [format |-> "geojson", orderby |-> "time", limit |-> limit,
     minmagnitude |-> m - cd, maxmagnitude |-> m + cd]

LoopCondition_NoLimit == results = <<>>

LoopCondition_OneMore == current_delta <= max_delta + step /\ results = <<>>

\* line 54: the loop condition
LoopCondition == current_delta <= max_delta /\ results = <<>>

EnterMatcher_Swapped(m, d, md) ==
    /\ mag' = d
    /\ delta' = m
    /\ max_delta' = md
    /\ current_delta' = m
    /\ results' = <<>>
    /\ queries' = <<>>
    /\ calls' = calls + 1

\* lines 42-52: entry of the function
EnterMatcher(m, d, md) ==
    /\ mag' = m
    /\ delta' = d
    /\ max_delta' = md
    /\ current_delta' = d
    /\ results' = <<>>
    /\ queries' = <<>>
    /\ calls' = calls + 1

\* lines 54-73: one iteration of the while loop
Query(r) ==
    /\ pc = "query"
    /\ LoopCondition
    /\ Len(queries) < MaxQueries
    /\ queries' = Append(queries, [params |-> QueryParams(mag, current_delta), answer |-> r])
    /\ IF r.kind = "exception"
       THEN /\ pc' = "raised"
            /\ fault' = "ConnectionError"
            /\ UNCHANGED <<current_delta, results>>
       ELSE /\ UNCHANGED <<pc, fault>>
            /\ IF r.status_code = HttpOk /\ r.features # <<>>
               THEN /\ results' = Examples(r.features)
                    /\ UNCHANGED current_delta
               ELSE /\ current_delta' = current_delta + step
                    /\ UNCHANGED results
    /\ UNCHANGED <<driverVars, matcherArgs, hazardous_data, pending, calls, ret, args>>

ReturnValue_AlwaysAppend ==
    results \o <<[place |-> "No matching earthquakes found", mag |-> None, time |-> None]>>

ReturnValue_NoSentinel == results

\* lines 75-79: the value returned once the loop has ended
ReturnValue == IF results = <<>> THEN Sentinel ELSE results

\* a call made on its own returns to its caller
MatcherReturn ==
    /\ pc = "query"
    /\ ~LoopCondition
    /\ pending = None
    /\ ret' = Some(ReturnValue)
    /\ pc' = "returned"
    /\ UNCHANGED <<fault, driverVars, matcherArgs, hazardous_data, pending,
                   current_delta, results, queries, calls, args>>

\* arguments of the stand-alone calls
Mags == {9, 525}
Deltas == {30, 60, 100}
MaxDeltas == {90, 200}

MatcherInit ==
    /\ pc = "query"
    /\ fault = "none"
    /\ pages = 0 /\ page = 0 /\ total_pages = 0 /\ first = 1 /\ per_page = 0
    /\ fetches = <<>> /\ neos = <<>> /\ idx = 1
    /\ hazardous_data = <<>>
    /\ pending = None
    /\ mag \in Mags
    /\ delta \in Deltas
    /\ max_delta \in MaxDeltas
    /\ current_delta = delta
    /\ results = <<>>
    /\ queries = <<>>
    /\ calls = 1
    /\ ret = None
    /\ args = None

MatcherNext ==
    \/ \E r \in SeismicAnswers : Query(r)
    \/ MatcherReturn

MatcherSpec == MatcherInit /\ [][MatcherNext]_vars

\* the interpreter runs the call on: a step that can be taken is taken
MatcherFairSpec == MatcherInit /\ [][MatcherNext]_vars /\ WF_vars(MatcherNext)

(***************************************************************************)
(* The NEO catalog as the program sees it                                  *)
(***************************************************************************)
Without(d, k) == [x \in DOMAIN d \ {k} |-> d[x]]
With(d, k, v) == [x \in DOMAIN d \cup {k} |-> IF x = k THEN v ELSE d[x]]

\* one close-approach entry; miss distance in hundredths of a km, velocity in km/s
Approach(miss, vel) ==
    [close_approach_date |-> "2026-Jan-01",
     miss_distance |-> [kilometers |-> Str(miss), lunar |-> Str(1)],
     relative_velocity |-> [kilometers_per_second |-> Str(vel), kilometers_per_hour |-> Str(3600 * vel)],
     orbiting_body |-> "Earth"]

\* a complete raw record
Neo(n, hazardous, diam, approaches) ==
    [id |-> n, name |-> n,
     is_potentially_hazardous_asteroid |-> hazardous,
     absolute_magnitude_h |-> 20,
     estimated_diameter |-> [meters |-> [estimated_diameter_min |-> diam - 1,
                                         estimated_diameter_max |-> diam]],
     orbital_data |-> [semi_major_axis |-> Str(15), eccentricity |-> Str(2),
                       inclination |-> Str(10), ascending_node_longitude |-> Str(300),
                       perihelion_argument |-> Str(170), mean_anomaly |-> Str(110),
                       epoch_osculation |-> "2461000.5"],
     close_approach_data |-> approaches]

\* the raw records the catalog serves, each a variation of a complete record
Catalog ==
    << Neo("full", TRUE, 2, <<Approach(637100, 2), Approach(100, 9)>>),
       Neo("safe", FALSE, 3, <<Approach(100, 3)>>),
       Neo("negvel", TRUE, 2, <<Approach(637101, -2)>>),
       Without(Neo("noflag", TRUE, 3, <<Approach(100, 3)>>), "is_potentially_hazardous_asteroid"),
       Without(Without(Neo("bare", TRUE, 1, <<>>), "close_approach_data"), "orbital_data"),
       Neo("still", TRUE, 2, <<Approach(637101, 0)>>),
       With(Neo("partial", TRUE, 1, <<Without(Approach(637099, 1), "close_approach_date")>>),
            "orbital_data", [eccentricity |-> Str(3)]),
       Neo("empty", TRUE, 2, <<>>),
       Neo("zerodiam", TRUE, 0, <<Approach(700000, 2)>>),
       Neo("negdiam", TRUE, -1, <<Approach(700000, 2)>>),
       Without(Neo("noname", TRUE, 2, <<Approach(700000, 2)>>), "name"),
       Without(Neo("noid", TRUE, 2, <<Approach(700000, 2)>>), "id"),
       Without(Neo("nodiam", TRUE, 2, <<>>), "estimated_diameter"),
       Neo("nomiss", TRUE, 2, <<Without(Approach(700000, 2), "miss_distance")>>),
       Neo("novel", TRUE, 2, <<Without(Approach(700000, 2), "relative_velocity")>>) >>

\* n consecutive records of the catalog from index s on (the catalog is cyclic)
Window(s, n) == [i \in 1..n |-> Catalog[((s + i - 2) % Len(Catalog)) + 1]]

\* the records of page p: the catalog is served per_page records at a time
PageContents(p) == IF p < total_pages THEN Window(first + p * per_page, per_page) ELSE <<>>

PageInfo(p) == [number |-> p, total_pages |-> total_pages]

\* what requests.get(BROWSE_URL, ...) can produce for page p
NeoAnswers(p) ==
    {[kind |-> "response", status_code |-> HttpOk,
      body |-> [near_earth_objects |-> PageContents(p), page |-> PageInfo(p)]]}
    \cup {[kind |-> "response", status_code |-> HttpOk, body |-> [page |-> PageInfo(p)]]}
    \cup {[kind |-> "response", status_code |-> 429, body |-> [error |-> "OVER_RATE_LIMIT"]]}
    \cup {[kind |-> "exception"]}

(***************************************************************************)
(* process_asteroid                                                        *)
(***************************************************************************)
\* lines 83-85, 102-103: the subscripts that raise KeyError on an absent key
KeyError(neo) ==
    \/ ~Has(neo, "name")
    \/ ~Has(neo, "id")
    \/ ~Has(neo, "estimated_diameter")
    \/ ~Has(neo.estimated_diameter, "meters")
    \/ ~Has(neo.estimated_diameter.meters, "estimated_diameter_max")
    \/ LET close_data == Get(neo, "close_approach_data", <<>>)
       IN  /\ close_data # <<>>
           /\ \/ ~Has(close_data[1], "miss_distance")
              \/ ~Has(close_data[1].miss_distance, "kilometers")
              \/ ~Has(close_data[1], "relative_velocity")
              \/ ~Has(close_data[1].relative_velocity, "kilometers_per_second")

PotentialImpact_NoneCounts(miss_km) == miss_km = None \/ miss_km[1] <= EARTH_RADIUS_KM

PotentialImpact_Strict(miss_km) == miss_km # None /\ miss_km[1] < EARTH_RADIUS_KM

\* line 108: miss distance known and at most the Earth's radius
PotentialImpact(miss_km) == miss_km # None /\ miss_km[1] <= EARTH_RADIUS_KM

\* lines 83-108: the locals before the energy is computed (no KeyError)
Locals(neo) ==
    LET orb == Get(neo, "orbital_data", <<>>)
        close_data == Get(neo, "close_approach_data", <<>>)
        next_approach == close_data[1]
        miss_km == IF close_data # <<>>
                   THEN Some(float(next_approach.miss_distance.kilometers)) ELSE None
    IN  [name |-> neo.name,
         id |-> neo.id,
         diameter_m |-> Some(neo.estimated_diameter.meters.estimated_diameter_max),
         a_AU |-> float(Get(orb, "semi_major_axis", Num(0))),
         e |-> float(Get(orb, "eccentricity", Num(0))),
         i_deg |-> float(Get(orb, "inclination", Num(0))),
         raan_deg |-> float(Get(orb, "ascending_node_longitude", Num(0))),
         argp_deg |-> float(Get(orb, "perihelion_argument", Num(0))),
         M_deg |-> float(Get(orb, "mean_anomaly", Num(0))),
         epoch |-> IF Has(orb, "epoch_osculation") THEN Some(orb.epoch_osculation) ELSE None,
         close_approach_date |->
             IF close_data # <<>> /\ Has(next_approach, "close_approach_date")
             THEN Some(next_approach.close_approach_date) ELSE None,
         miss_distance_km |-> miss_km,
         velocity_km_s |->
             IF close_data # <<>>
             THEN Some(float(next_approach.relative_velocity.kilometers_per_second)) ELSE None,
         potential_impact |-> PotentialImpact(miss_km)]

EnergyGuard_Positive(l) ==
    /\ l.velocity_km_s # None /\ l.velocity_km_s[1] > 0
    /\ l.diameter_m # None /\ l.diameter_m[1] > 0

\* line 110: `if velocity and diameter`
EnergyGuard(l) == Truthy(l.velocity_km_s) /\ Truthy(l.diameter_m)

\* line 111
Energy(l) == impact_energy_joules(l.diameter_m[1], l.velocity_km_s[1], DefaultDensity)

\* lines 117-135: the record appended to hazardous_data
Record(l, E, Mw, examples) ==
    [name |-> l.name, id |-> l.id, diameter_m |-> l.diameter_m,
     a_AU |-> l.a_AU, e |-> l.e, i_deg |-> l.i_deg, raan_deg |-> l.raan_deg,
     argp_deg |-> l.argp_deg, M_deg |-> l.M_deg, epoch |-> l.epoch,
     close_approach_date |-> l.close_approach_date,
     miss_distance_km |-> l.miss_distance_km,
     velocity_km_s |-> l.velocity_km_s,
     potential_impact |-> l.potential_impact,
     impact_energy_J |-> E, impact_magnitude_Mw |-> Mw, earthquake_examples |-> examples]

\* no get_earthquake_examples call is active
MatcherIdle ==
    /\ mag = 0 /\ delta = 0 /\ max_delta = 0 /\ current_delta = 0
    /\ results = <<>> /\ queries = <<>>

\* the locals of a get_earthquake_examples call are gone once it has returned
LeaveMatcher ==
    /\ mag' = 0 /\ delta' = 0 /\ max_delta' = 0 /\ current_delta' = 0
    /\ results' = <<>> /\ queries' = <<>>

\* line 37: the hazard filter
IsHazardous(neo) == Get(neo, "is_potentially_hazardous_asteroid", FALSE)

\* the record the for loop of line 36 is at
AtNeo == pc = "iter" /\ idx <= Len(neos)

\* lines 36-38 with lines 81-135: process_asteroid(neo) up to its return, its
\* exception, or its call of get_earthquake_examples
ProcessAsteroid ==
    /\ AtNeo
    /\ IsHazardous(neos[idx])
    /\ LET neo == neos[idx]
           l == Locals(neo)
       IN  IF KeyError(neo)
           THEN /\ pc' = "raised"
                /\ fault' = "KeyError"
                /\ UNCHANGED <<idx, hazardous_data, pending, matcherArgs,
                               current_delta, results, queries, calls>>
           ELSE IF ~EnergyGuard(l)
           THEN /\ hazardous_data' = Append(hazardous_data, Record(l, None, None, None))
                /\ idx' = idx + 1
                /\ UNCHANGED <<pc, fault, pending, matcherArgs,
                               current_delta, results, queries, calls>>
           ELSE IF MathDomainError(Energy(l))
           THEN /\ pc' = "raised"
                /\ fault' = "ValueError"
                /\ UNCHANGED <<idx, hazardous_data, pending, matcherArgs,
                               current_delta, results, queries, calls>>
           ELSE /\ pending' = Some([locals |-> l, E |-> Energy(l),
                                    Mw |-> energy_to_magnitude(Energy(l))])
                /\ EnterMatcher(energy_to_magnitude(Energy(l)), DefaultDelta, DefaultMaxDelta)
                /\ pc' = "query"
                /\ UNCHANGED <<fault, idx, hazardous_data>>
    /\ UNCHANGED <<pages, page, total_pages, first, per_page, fetches, neos, ret, args>>

\* lines 113-135: get_earthquake_examples returns into process_asteroid, which
\* appends the record and returns into the for loop
ResumeProcess ==
    /\ pc = "query"
    /\ ~LoopCondition
    /\ pending # None
    /\ hazardous_data' = Append(hazardous_data,
           Record(pending[1].locals, Some(pending[1].E), Some(pending[1].Mw), Some(ReturnValue)))
    /\ pending' = None
    /\ LeaveMatcher
    /\ idx' = idx + 1
    /\ pc' = "iter"
    /\ UNCHANGED <<fault, pages, page, total_pages, first, per_page, fetches, neos, calls, ret, args>>

(***************************************************************************)
(* fetch_hazardous_neos                                                    *)
(***************************************************************************)
RangeNext_Inclusive(p) == IF p <= pages THEN "fetch" ELSE "done"

RangeNext_LastPage(p) == IF p < pages /\ p < total_pages THEN "fetch" ELSE "done"

\* line 30: `for page in range(pages)` at index p
RangeNext(p) == IF p < pages THEN "fetch" ELSE "done"

RaiseForStatus_Never(r) == FALSE

RaiseForStatus_ServerOnly(r) == r.status_code >= 500

\* line 33: raise_for_status raises HTTPError on a 4xx or 5xx status
RaiseForStatus(r) == r.status_code >= 400

\* lines 31-34: fetch one page
Fetch(r) ==
    /\ pc = "fetch"
    /\ fetches' = Append(fetches, [params |-> [page |-> page], answer |-> r])
    /\ IF r.kind = "exception"
       THEN /\ pc' = "raised"
            /\ fault' = "ConnectionError"
            /\ UNCHANGED <<neos, idx>>
       ELSE IF RaiseForStatus(r)
       THEN /\ pc' = "raised"
            /\ fault' = "HTTPError"
            /\ UNCHANGED <<neos, idx>>
       ELSE /\ neos' = Get(r.body, "near_earth_objects", <<>>)
            /\ idx' = 1
            /\ pc' = "iter"
            /\ UNCHANGED fault
    /\ UNCHANGED <<pages, page, total_pages, first, per_page, hazardous_data, pending, matcherArgs,
                   current_delta, results, queries, calls, ret, args>>

\* lines 36-37: a record that is not flagged hazardous is passed over
SkipNeo ==
    /\ AtNeo
    /\ ~IsHazardous(neos[idx])
    /\ idx' = idx + 1
    /\ UNCHANGED <<pc, fault, pages, page, total_pages, first, per_page, fetches, neos,
                   hazardous_data,
                   pending, matcherArgs, current_delta, results, queries, calls, ret, args>>

\* lines 30, 36: the inner loop is over, the outer loop goes on or ends
NextPage ==
    /\ pc = "iter"
    /\ idx > Len(neos)
    /\ page' = page + 1
    /\ pc' = RangeNext(page + 1)
    /\ UNCHANGED <<fault, pages, total_pages, first, per_page, fetches, neos, idx,
                   hazardous_data,
                   pending, matcherArgs, current_delta, results, queries, calls, ret, args>>

\* lines 14, 138: the module is loaded and fetch_hazardous_neos(pages) is called
Init ==
    /\ pages \in 0..MaxPages
    /\ total_pages \in 1..MaxTotalPages
    /\ first \in 1..Len(Catalog)
    /\ per_page \in 1..MaxNeos
    /\ page = 0
    /\ pc = RangeNext(0)
    /\ fault = "none"
    /\ fetches = <<>>
    /\ neos = <<>>
    /\ idx = 1
    /\ hazardous_data = <<>>
    /\ pending = None
    /\ MatcherIdle
    /\ calls = 0
    /\ ret = None
    /\ args = None

Next ==
    \/ \E r \in NeoAnswers(page) : Fetch(r)
    \/ SkipNeo
    \/ ProcessAsteroid
    \/ \E r \in SeismicAnswers : Query(r)
    \/ ResumeProcess
    \/ NextPage

Spec == Init /\ [][Next]_vars

\* the invocations of fetch_hazardous_neos started so far: each starts at page 0
Invocations == 1 + Cardinality({i \in 2..Len(fetches) : fetches[i].params.page = 0})

\* lines 14, 28-30: fetch_hazardous_neos(pages) is called once more in the same process;
\* hazardous_data is the module-level list and is not touched by the call
CallAgain ==
    /\ pc = "done"
    /\ Invocations < MaxCalls
    /\ page' = 0
    /\ pc' = RangeNext(0)
    /\ neos' = <<>>
    /\ idx' = 1
    /\ UNCHANGED <<fault, pages, total_pages, first, per_page, fetches, hazardous_data,
                   pending, matcherArgs, current_delta, results, queries, calls, ret, args>>

RerunNext ==
    \/ \E r \in NeoAnswers(page) : Fetch(r)
    \/ SkipNeo
    \/ ProcessAsteroid
    \/ \E r \in SeismicAnswers : Query(r)
    \/ ResumeProcess
    \/ NextPage
    \/ CallAgain

\* line 138: the script calls fetch_hazardous_neos(pages=1); the repeated calls are
\* followed on catalogs that serve one record per page
RerunInit == Init /\ pages = 1 /\ per_page = 1

RerunSpec == RerunInit /\ [][RerunNext]_vars

(***************************************************************************)
(* Properties                                                              *)
(***************************************************************************)
\* the records a fetch delivered
BodyNeos(a) ==
    IF a.kind = "response" /\ a.status_code = 200 /\ "near_earth_objects" \in DOMAIN a.body
    THEN a.body.near_earth_objects ELSE <<>>

\* the records of the first n fetches, in page order
RECURSIVE FetchedNeos(_)
FetchedNeos(n) == IF n = 0 THEN <<>> ELSE FetchedNeos(n - 1) \o BodyNeos(fetches[n].answer)

FlaggedHazardous(n) ==
    "is_potentially_hazardous_asteroid" \in DOMAIN n /\ n.is_potentially_hazardous_asteroid = TRUE

\* the flagged records of the first n fetches, in encounter order
FlaggedOfFetches(n) == SelectSeq(FetchedNeos(n), FlaggedHazardous)

\* a fetch answered with a non-success response
FailedFetch(i) ==
    fetches[i].answer.kind = "response" /\ fetches[i].answer.status_code \notin 200..399

\* record rec was built from raw record raw
BuiltFrom(rec, raw) ==
    /\ rec.id = raw.id
    /\ rec.name = raw.name
    /\ rec.diameter_m = <<raw.estimated_diameter.meters.estimated_diameter_max>>

ReportsLastPage(i) ==
    /\ fetches[i].answer.kind = "response"
    /\ fetches[i].answer.status_code = 200
    /\ fetches[i].answer.body.page.number >= fetches[i].answer.body.page.total_pages - 1

TransportFailure(a) == a.kind = "exception" \/ a.status_code # 200

\* a query that produced no event: an empty answer or a non-success response
NoEvents(a) == a.kind = "response" /\ (a.status_code # 200 \/ a.features = <<>>)

\* a query answered successfully with at least one event
FoundEvents(a) == a.kind = "response" /\ a.status_code = 200 /\ a.features # <<>>

\* the window of the k-th query (k = 0, 1, ...) for the arguments of the call
WindowOf(k) ==
    [minmagnitude |-> mag - (delta + k * 30), maxmagnitude |-> mag + (delta + k * 30)]

\* C3 as stated: a transport failure of one seismic query, a non-success response or a
\* network error, never aborts the search; it counts as zero events for that window
\* and the next query is issued with delta increased by step while the new delta is
\* at most max_delta.
C3_TransportFailureNeverAborts ==
    \A i \in 1..Len(queries) :
        TransportFailure(queries[i].answer) =>
            /\ pc # "raised"
            /\ fault = "none"
            /\ i = Len(queries) =>
                   /\ results = <<>>
                   /\ pc = "query" => current_delta = delta + i * 30
            /\ i < Len(queries) =>
                   /\ queries[i + 1].params.minmagnitude = WindowOf(i).minmagnitude
                   /\ queries[i + 1].params.maxmagnitude = WindowOf(i).maxmagnitude

\* C4 as stated: energy_to_magnitude is never invoked with energy <= 0; energy, magnitude
\* and the seismic lookup are computed only when diameter and velocity are both present
\* and positive, and no domain error is raised.
C4_EnergyOnlyForPositiveInputs ==
    /\ fault # "ValueError"
    /\ pending # None =>
           /\ pending[1].E > 0
           /\ pending[1].locals.diameter_m # None /\ pending[1].locals.diameter_m[1] > 0
           /\ pending[1].locals.velocity_km_s # None /\ pending[1].locals.velocity_km_s[1] > 0
    /\ \A i \in 1..Len(hazardous_data) :
           LET rec == hazardous_data[i]
               positive == /\ rec.diameter_m # None /\ rec.diameter_m[1] > 0
                           /\ rec.velocity_km_s # None /\ rec.velocity_km_s[1] > 0
           IN  IF positive
               THEN rec.impact_energy_J # None /\ rec.impact_energy_J[1] > 0
               ELSE /\ rec.impact_energy_J = None
                    /\ rec.impact_magnitude_Mw = None
                    /\ rec.earthquake_examples = None

\* C5 as stated: a missing source field never aborts the extraction; every flagged
\* record that was processed has produced one entry of hazardous_data.
C5_ExtractionNeverAborts ==
    /\ fault # "KeyError"
    /\ pc \in {"fetch", "done"} => Len(hazardous_data) = Len(FlaggedOfFetches(Len(fetches)))

\* C6 as stated: whatever the catalog answers, the returned sequence has at most 3
\* entries, each made of place, magnitude and time only, in the catalog's order.
C6_AtMostThreeExamples ==
    ret # None =>
        /\ Len(ret[1]) <= 3
        /\ \A i \in 1..Len(ret[1]) : DOMAIN ret[1][i] = {"place", "mag", "time"}
        /\ \A i \in 1..Len(queries) :
               FoundEvents(queries[i].answer) =>
                   \A j \in 1..Len(ret[1]) :
                       ret[1][j].place = queries[i].answer.features[j].properties.place

\* C7: if every query of the call, for every window up to max_delta, produced no event,
\* the call returns normally exactly the one-element sentinel sequence.
C7_SentinelWhenNothingFound ==
    (pc = "returned" /\ \A i \in 1..Len(queries) : NoEvents(queries[i].answer)) =>
        ret = << <<[place |-> "No matching earthquakes found", mag |-> <<>>, time |-> <<>>]>> >>

\* C7 witness: the default call went through all six windows without an event
C7_Witness ==
    /\ pc = "returned"
    /\ delta = 30 /\ max_delta = 200
    /\ Len(queries) = 6
    /\ \A i \in 1..Len(queries) : NoEvents(queries[i].answer)
    /\ Len(ret[1]) = 1
    /\ ret[1][1].place = "No matching earthquakes found"

\* C8: the k-th query (k = 0, 1, ...) asks for the symmetric window
\* [mag - (delta + 0.3 k), mag + (delta + 0.3 k)], and a call issues at most
\* floor((max_delta - delta) / 0.3) + 1 queries.
C8_WindowWidensByStep ==
    /\ \A i \in 1..Len(queries) :
           /\ queries[i].params.minmagnitude = WindowOf(i - 1).minmagnitude
           /\ queries[i].params.maxmagnitude = WindowOf(i - 1).maxmagnitude
    /\ Len(queries) <= ((max_delta - delta) \div 30) + 1

\* C8 witness: the default call has issued its sixth query, for the window of delta 1.8
C8_Witness ==
    /\ delta = 30 /\ max_delta = 200
    /\ Len(queries) = 6
    /\ queries[6].params.maxmagnitude - queries[6].params.minmagnitude = 360

\* C9: if the first query succeeds with at least one event, it is the only query of the
\* call, and the call returns that query's events, not the sentinel.
C9_FirstHitIsOnlyQuery ==
    (Len(queries) >= 1 /\ FoundEvents(queries[1].answer)) =>
        /\ Len(queries) = 1
        /\ pc \in {"query", "returned"}
        /\ pc = "returned" =>
               LET features == queries[1].answer.features
               IN  /\ Len(ret[1]) >= 1
                   /\ ret[1][1].place = features[1].properties.place
                   /\ ret[1][1].mag = <<features[1].properties.mag>>
                   /\ ret[1][1].time = <<features[1].properties.time>>
                   /\ ret[1][1].place # "No matching earthquakes found"

\* C9 witness: a call returned after one query that found two events
C9_Witness ==
    /\ pc = "returned"
    /\ Len(queries) = 1
    /\ FoundEvents(queries[1].answer)
    /\ Len(queries[1].answer.features) = 2
    /\ Len(ret[1]) = 2

\* C10: in every record of hazardous_data, potential_impact is true exactly when the
\* miss distance is known and at most 6371.0 km (inclusive).
C10_PotentialImpactIffWithinRadius ==
    \A i \in 1..Len(hazardous_data) :
        hazardous_data[i].potential_impact <=>
            (hazardous_data[i].miss_distance_km # <<>>
             /\ hazardous_data[i].miss_distance_km[1] <= 637100)

\* C10 witness: one record at exactly 6371.0 km flagged, one at 6371.01 km not flagged
C10_Witness ==
    /\ \E i \in 1..Len(hazardous_data) :
           hazardous_data[i].miss_distance_km = <<637100>> /\ hazardous_data[i].potential_impact
    /\ \E i \in 1..Len(hazardous_data) :
           hazardous_data[i].miss_distance_km = <<637101>> /\ ~hazardous_data[i].potential_impact

\* a nullable value is known
Known(x) == x # <<>>

\* C11 as stated: in every record energy and magnitude are both null or both non-null,
\* and they are non-null exactly when diameter and velocity are both known.
C11_EnergyIffBothKnown ==
    \A i \in 1..Len(hazardous_data) :
        LET rec == hazardous_data[i]
        IN  /\ Known(rec.impact_energy_J) <=> Known(rec.impact_magnitude_Mw)
            /\ Known(rec.impact_energy_J) <=> (Known(rec.diameter_m) /\ Known(rec.velocity_km_s))

\* C11 amended: in every record energy and magnitude are both null or both non-null,
\* and they are non-null exactly when diameter and velocity are both known and both
\* different from zero.
C11_EnergyIffBothNonZero ==
    \A i \in 1..Len(hazardous_data) :
        LET rec == hazardous_data[i]
        IN  /\ Known(rec.impact_energy_J) <=> Known(rec.impact_magnitude_Mw)
            /\ Known(rec.impact_energy_J) <=>
                   /\ Known(rec.diameter_m) /\ rec.diameter_m[1] # 0
                   /\ Known(rec.velocity_km_s) /\ rec.velocity_km_s[1] # 0

\* C11 witness: a record with a known zero velocity and no energy next to a record with
\* energy and magnitude
C11_Witness ==
    /\ \E i \in 1..Len(hazardous_data) :
           /\ hazardous_data[i].velocity_km_s = <<0>>
           /\ Known(hazardous_data[i].diameter_m)
           /\ ~Known(hazardous_data[i].impact_energy_J)
    /\ \E i \in 1..Len(hazardous_data) :
           Known(hazardous_data[i].impact_energy_J) /\ Known(hazardous_data[i].impact_magnitude_Mw)

\* a raw record without close-approach entries: the list is empty or absent
NoApproach(n) == "close_approach_data" \notin DOMAIN n \/ n.close_approach_data = <<>>

\* the step that extracts a flagged record without close-approach entries
ExtractsNoApproach ==
    /\ pc = "iter"
    /\ idx <= Len(neos)
    /\ FlaggedHazardous(neos[idx])
    /\ NoApproach(neos[idx])

\* C12: extracting a hazardous record whose close-approach list is empty or absent
\* issues no query to the seismic catalog, and the record it appends has date, miss
\* distance and velocity null and potential_impact false.
C12_NoApproachNoLookup ==
    [][ExtractsNoApproach =>
          /\ pc' # "query"
          /\ calls' = calls
          /\ queries' = queries
          /\ pc' = "iter" =>
                 /\ Len(hazardous_data') = Len(hazardous_data) + 1
                 /\ LET rec == hazardous_data'[Len(hazardous_data')]
                    IN  /\ rec.id = neos[idx].id
                        /\ rec.close_approach_date = <<>>
                        /\ rec.miss_distance_km = <<>>
                        /\ rec.velocity_km_s = <<>>
                        /\ rec.potential_impact = FALSE]_vars

\* C12 witness: records of an absent and of an empty close-approach list were appended,
\* and the only seismic calls made were those of the records that have an energy
C12_Witness ==
    /\ pending = <<>>
    /\ calls = Cardinality({i \in 1..Len(hazardous_data) : Known(hazardous_data[i].impact_energy_J)})
    /\ \E i \in 1..Len(hazardous_data) :
           hazardous_data[i].id = "bare" /\ hazardous_data[i].velocity_km_s = <<>>
    /\ \E i \in 1..Len(hazardous_data) :
           hazardous_data[i].id = "empty" /\ hazardous_data[i].velocity_km_s = <<>>

\* no fetch of the run was answered with a failure
NoCatalogFailure ==
    \A i \in 1..Len(fetches) :
        fetches[i].answer.kind = "response" /\ fetches[i].answer.status_code = 200

\* C13 as stated: after any run without a catalog failure, hazardous_data holds exactly
\* one record per flagged raw record of the fetched pages, in page and position order.
C13_OneRecordPerFlagged ==
    (pc \in {"done", "raised"} /\ NoCatalogFailure /\ fault # "ConnectionError") =>
        LET flagged == FlaggedOfFetches(Len(fetches))
        IN  /\ Len(hazardous_data) = Len(flagged)
            /\ \A j \in 1..Len(flagged) : hazardous_data[j].id = flagged[j].id

\* the two argument triples differ in exactly one argument, where the first is smaller
SmallerInOne(a, b) ==
    \/ a.diameter_m < b.diameter_m /\ a.velocity_km_s = b.velocity_km_s /\ a.density = b.density
    \/ a.diameter_m = b.diameter_m /\ a.velocity_km_s < b.velocity_km_s /\ a.density = b.density
    \/ a.diameter_m = b.diameter_m /\ a.velocity_km_s = b.velocity_km_s /\ a.density < b.density

\* C14: for positive diameter, velocity and density the energy is positive, and raising
\* one argument with the other two fixed strictly raises the energy.
C14_EnergyStrictlyIncreasing ==
    pc = "returned" /\ args # <<>> =>
        /\ ret[1][1] > 0
        /\ ret[1][2] > 0
        /\ SmallerInOne(args[1], args[2]) => ret[1][1] < ret[1][2]

\* C14 witness: two calls that differ in the diameter only, 1 m against 2 m
C14_Witness ==
    /\ pc = "returned"
    /\ args # <<>>
    /\ args[1].diameter_m = 1 /\ args[2].diameter_m = 2
    /\ args[1].velocity_km_s = args[2].velocity_km_s
    /\ args[1].density = 3000 /\ args[2].density = 3000
    /\ ret[1][1] < ret[1][2]

\* the index of the fetch that opened the current invocation of fetch_hazardous_neos
InvocationStart ==
    CHOOSE i \in 1..Len(fetches) :
        fetches[i].params.page = 0 /\ \A j \in (i + 1)..Len(fetches) : fetches[j].params.page # 0

\* the flagged records fetched before the current invocation started
FlaggedBeforeInvocation == FlaggedOfFetches(InvocationStart - 1)

\* C15 as stated: each invocation starts from an empty ResultSet; after a second
\* invocation hazardous_data holds only records of the pages that invocation fetched.
C15_SecondCallStartsEmpty ==
    (pc = "done" /\ Len(fetches) >= 2 /\ InvocationStart >= 2) =>
        Len(hazardous_data) = Len(FlaggedOfFetches(Len(fetches))) - Len(FlaggedBeforeInvocation)

\* some page fetch has failed: a network error or a non-success response
SomeFetchFailed ==
    \E i \in 1..Len(fetches) :
        \/ fetches[i].answer.kind = "exception"
        \/ fetches[i].answer.kind = "response" /\ fetches[i].answer.status_code \notin 200..399

\* C16: once a page fetch has failed, no further NEO catalog fetch is issued in that
\* run (no retry of the failed page, no later page), and no extraction and no seismic
\* query happens after the failure.
C16_NothingAfterFailedFetch ==
    [][SomeFetchFailed =>
          /\ fetches' = fetches
          /\ idx' = idx
          /\ hazardous_data' = hazardous_data
          /\ pending' = pending
          /\ calls' = calls
          /\ queries' = queries]_vars

\* C16 witness: page 1 failed with a network error after a record of page 0 had been
\* extracted with a seismic lookup, and the run stands aborted with one record
C16_Witness ==
    /\ Len(fetches) = 2
    /\ fetches[2].answer.kind = "exception"
    /\ pc = "raised"
    /\ fault = "ConnectionError"
    /\ calls = 1
    /\ Len(hazardous_data) = 1
    /\ queries = <<>>

\* the call has returned a non-empty list
ReturnedNonEmpty == pc = "returned" /\ ret # <<>> /\ ret[1] # <<>>

\* some query of the call got no response at all (a network error)
SomeQueryUnanswered == \E i \in 1..Len(queries) : queries[i].answer.kind = "exception"

\* C17: get_earthquake_examples terminates: for any target magnitude and any sequence
\* of catalog responses (events, empty or non-success) it eventually returns a
\* non-empty list, the events or the sentinel, after finitely many queries.
C17_SearchTerminates == <>(ReturnedNonEmpty \/ SomeQueryUnanswered)

\* C17 witness: a call with delta 60 and max_delta 200 has returned after five queries,
\* four of them without events (non-success and empty responses) and the fifth with events
C17_Witness ==
    /\ pc = "returned"
    /\ delta = 60 /\ max_delta = 200
    /\ Len(queries) = 5
    /\ queries[1].answer.status_code = 503
    /\ queries[4].answer.status_code = 200 /\ queries[4].answer.features = <<>>
    /\ \A i \in 1..4 : NoEvents(queries[i].answer)
    /\ FoundEvents(queries[5].answer)
    /\ ret[1] # <<>>

\* C18: the fetches carry the page indices 0, 1, 2, ... in strictly ascending order,
\* each index at most once, and there are never more than max_pages of them; when the
\* fetch of page p+1 is about to be issued every record of page p has been processed:
\* the for loop is past the last record and each flagged record has its entry.
C18_PagesInOrderOneAtATime ==
    /\ Len(fetches) <= pages
    /\ Len(fetches) >= 1 => fetches[1].params.page = 0
    /\ \A i \in 1..Len(fetches) : \A j \in 1..Len(fetches) :
           i < j => fetches[i].params.page < fetches[j].params.page
    /\ \A i \in 2..Len(fetches) : fetches[i].params.page = fetches[i - 1].params.page + 1
    /\ (pc = "fetch" /\ Len(fetches) >= 1) =>
           /\ page = fetches[Len(fetches)].params.page + 1
           /\ idx = Len(neos) + 1
           /\ pending = <<>>
           /\ Len(hazardous_data) = Len(FlaggedOfFetches(Len(fetches)))

\* C18 witness: page 1 has just been fetched, after the two flagged records of page 0
\* had both been extracted
C18_Witness ==
    /\ pc = "iter"
    /\ idx = 1
    /\ Len(fetches) = 2
    /\ fetches[2].params.page = 1
    /\ Len(FlaggedOfFetches(1)) = 2
    /\ Len(hazardous_data) = 2
    /\ Len(neos) = 2

\* the queries of the call that came back successful with at least one event
Hits == {i \in 1..Len(queries) : FoundEvents(queries[i].answer)}

\* entry x of a result is the sentinel entry
IsSentinelEntry(x) == x.place = "No matching earthquakes found" /\ x.mag = <<>> /\ x.time = <<>>

\* C19: the call returns the sentinel only if none of its queries came back successful
\* with at least one event; the result is never empty and never mixes the sentinel
\* entry with events; when some query succeeded with events the result is exactly the
\* events of the first such query.
C19_SentinelOrFirstHit ==
    pc = "returned" =>
        /\ ret[1] # <<>>
        /\ (\E j \in 1..Len(ret[1]) : IsSentinelEntry(ret[1][j])) => (Hits = {} /\ Len(ret[1]) = 1)
        /\ Hits = {} => (Len(ret[1]) = 1 /\ IsSentinelEntry(ret[1][1]))
        /\ Hits # {} =>
               LET k == CHOOSE i \in Hits : \A h \in Hits : i <= h
                   data == queries[k].answer.features
               IN  /\ Len(ret[1]) = Len(data)
                   /\ \A j \in 1..Len(data) :
                          /\ ret[1][j].place = data[j].properties.place
                          /\ ret[1][j].mag = <<data[j].properties.mag>>
                          /\ ret[1][j].time = <<data[j].properties.time>>

\* C19 witness: the first window got a non-success response, the second an empty
\* answer, the third three events, and the call returned these three events
C19_Witness ==
    /\ pc = "returned"
    /\ Len(queries) = 3
    /\ queries[1].answer.status_code = 503
    /\ queries[2].answer.status_code = 200 /\ queries[2].answer.features = <<>>
    /\ Hits = {3}
    /\ Len(queries[3].answer.features) = 3
    /\ Len(ret[1]) = 3

\* the records of hazardous_data that carry seismic examples
WithExamples == {j \in 1..Len(hazardous_data) : hazardous_data[j].earthquake_examples # <<>>}

\* the step appends the record of an extraction that made a seismic lookup
AppendsLookedUp == pending # <<>> /\ Len(hazardous_data') = Len(hazardous_data) + 1

\* C20: in every record of hazardous_data the seismic examples are null exactly when
\* the impact energy is null; non-null examples are a non-empty list obtained from
\* exactly one get_earthquake_examples call, whose target is that record's impact
\* magnitude: one search per record with energy, none for the others.
C20_OneSearchPerEnergyRecord ==
    /\ [](/\ \A j \in 1..Len(hazardous_data) :
               /\ hazardous_data[j].earthquake_examples = <<>>
                      <=> hazardous_data[j].impact_energy_J = <<>>
               /\ hazardous_data[j].earthquake_examples # <<>>
                      => hazardous_data[j].earthquake_examples[1] # <<>>
          /\ calls = Cardinality(WithExamples) + (IF pending # <<>> THEN 1 ELSE 0))
    /\ [][AppendsLookedUp =>
             LET rec == hazardous_data'[Len(hazardous_data')]
             IN  /\ rec.impact_magnitude_Mw = <<mag>>
                 /\ rec.earthquake_examples # <<>>
                 /\ calls' = calls
                 /\ \A i \in 1..Len(queries) :
                        queries[i].params.minmagnitude + queries[i].params.maxmagnitude
                            = 2 * rec.impact_magnitude_Mw[1]]_vars

\* C20 witness: a run ended with two records, the first with energy and two events
\* found by its one search, the second without energy and without examples
C20_Witness ==
    /\ pc = "done"
    /\ Len(hazardous_data) = 2
    /\ hazardous_data[1].impact_energy_J # <<>>
    /\ Len(hazardous_data[1].earthquake_examples[1]) = 2
    /\ hazardous_data[2].impact_energy_J = <<>>
    /\ hazardous_data[2].earthquake_examples = <<>>
    /\ calls = 1

====
